---- MODULE Spec2Model ----
(***************************************************************************)
(* Model of the monitoring and retraining logic of the sentiment-analysis  *)
(* service: SentimentMonitor (src/monitoring.py), RetrainingManager        *)
(* (src/retrain.py) and SentimentAnalyzer.predict (src/app.py).            *)
(*                                                                         *)
(* Numbers.  Confidences, scores and proportions are floats in the source. *)
(* Here they are exact hundredths (0.45 is 45), and every comparison of a  *)
(* mean or a proportion with a threshold is done on the exact rational by  *)
(* cross-multiplication.  Binary rounding of numpy's float arithmetic is   *)
(* therefore outside the model.                                            *)
(* The scores predict computes are exact fractions <<num, den>>.           *)
(*                                                                         *)
(* Persistence.  The CSV file is modelled as the sequence of its data      *)
(* rows, starting from a freshly created file; the timestamp and the       *)
(* input_text columns are left out.                                        *)
(***************************************************************************)
EXTENDS Integers, Sequences, FiniteSets, TLC

VARIABLES
    window_size,         \* SentimentMonitor.window_size (deque maxlen)
    confidence_buffer,   \* SentimentMonitor.confidence_buffer
    sentiment_buffer,    \* SentimentMonitor.sentiment_buffer
    log_file,            \* data rows of the CSV file, oldest first
    retraining_history,  \* RetrainingManager.retraining_history
    clock,               \* datetime.now(), in clock ticks
    ret,                 \* what the last call returned or raised
    inflight,            \* per caller thread: << >> when it is in no call, or
                         \* <<line, result>>: the line of log_prediction it
                         \* is about to run and the result it was handed
    overlapped           \* history: a log_prediction call has started
                         \* while another one was in progress

vars == <<window_size, confidence_buffer, sentiment_buffer, log_file,
          retraining_history, clock, ret, inflight, overlapped>>

threadVars == <<inflight, overlapped>>

----------------------------------------------------------------------------
(* Bounds of the model *)

\* largest window capacity of the monitors of Spec
MaxWindow == 2
\* number of log_prediction calls in a behaviour of Spec
MaxLogs == 4
\* last value of the clock
MaxClock == 2
\* clock ticks in one second (the resolution of datetime.now() is finer
\* than the %S of strftime)
TicksPerSecond == 2
\* number of records the history holds before check_and_retrain stops
\* being called
MaxHistory == 2
\* window capacity of the monitor of SpecMonitor
StreamWindow == 23
\* number of log_prediction calls in a behaviour of SpecMonitor
MaxStream == 24
\* number of caller threads that share the monitor of SpecThreads
NumThreads == 2
\* number of log_prediction calls in a behaviour of SpecThreads
MaxThreadLogs == 2
\* largest logit the classification model puts out, in units of ln 2
MaxLogit == 5

----------------------------------------------------------------------------
(* Program constants, in hundredths where they are proportions *)

labels == <<"Negative", "Neutral", "Positive">>

confidence_threshold == 60

drift_threshold == 20

baseline_distribution == [Negative |-> 33, Neutral |-> 34, Positive |-> 33]

MinAlertSamples == 10

CriticalConfidence == 50

TrendSlice == 20

TrendDrop == 10

\* the capacity of a monitor built without a window_size argument
DefaultWindow == 100

\* the number of predictions retrain.py's __main__ logs
MainPredictions == 50

----------------------------------------------------------------------------
(* Arithmetic helpers *)

RECURSIVE Sum(_)
Sum(s) == IF s = << >> THEN 0 ELSE Head(s) + Sum(Tail(s))

Abs(x) == IF x < 0 THEN -x ELSE x

MinOf(a, b) == IF a < b THEN a ELSE b

SeqMin(s) == CHOOSE x \in {s[i] : i \in DOMAIN s} :
                 \A y \in {s[i] : i \in DOMAIN s} : x <= y

SeqMax(s) == CHOOSE x \in {s[i] : i \in DOMAIN s} :
                 \A y \in {s[i] : i \in DOMAIN s} : x >= y

\* list.count / deque.count
Count(s, x) == Cardinality({i \in DOMAIN s : s[i] = x})

\* Python's s[-n:], for n > 0
LastSlice(s, n) == IF Len(s) <= n THEN s ELSE SubSeq(s, Len(s) - n + 1, Len(s))

\* Python's s[:n]
FirstSlice(s, n) == IF Len(s) <= n THEN s ELSE SubSeq(s, 1, n)

\* np.mean(s) < t for a threshold t in hundredths; the mean of an empty
\* sequence is NaN, and every comparison with NaN is false
MeanBelow(s, t) == Len(s) > 0 /\ Sum(s) < t * Len(s)

\* np.mean(a) < np.mean(b), the drop d forgotten
MeanBelowMean(a, b, d) ==
    /\ Len(a) > 0
    /\ Len(b) > 0
    /\ Sum(a) * Len(b) < Sum(b) * Len(a)

\* np.mean(a) < np.mean(b) - d
MeanBelowMeanMinus(a, b, d) ==
    /\ Len(a) > 0
    /\ Len(b) > 0
    /\ Sum(a) * Len(b) < Sum(b) * Len(a) - d * Len(a) * Len(b)

----------------------------------------------------------------------------
(* collections.deque(maxlen = n) *)

\* a full deque that refuses the new element instead of dropping its oldest
DequeAppendKeepOldest(q, x, maxlen) ==
    IF maxlen = 0 \/ Len(q) = maxlen THEN q ELSE Append(q, x)

DequeAppend(q, x, maxlen) ==
    IF maxlen = 0 THEN q
    ELSE IF Len(q) = maxlen THEN Append(Tail(q), x)
    ELSE Append(q, x)

----------------------------------------------------------------------------
(* SentimentMonitor.check_alerts, as a function of the two buffers *)

\* the {label: count / len} comprehension, kept as counts over a total
CurrentDist(sb) == [counts |-> [s \in {labels[i] : i \in DOMAIN labels} |-> Count(sb, s)],
                    total |-> Len(sb)]

\* the drift without abs(): only a label above its baseline counts
DriftExceedsSigned(sb) ==
    \E i \in DOMAIN labels :
        100 * Count(sb, labels[i]) - baseline_distribution[labels[i]] * Len(sb)
            > drift_threshold * Len(sb)

\* abs(current_dist[s] - baseline_distribution[s]) > drift_threshold for
\* the label of maximal drift
DriftExceeds(sb) ==
    \E i \in DOMAIN labels :
        Abs(100 * Count(sb, labels[i]) - baseline_distribution[labels[i]] * Len(sb))
            > drift_threshold * Len(sb)

LowConfidenceAlert(cb) ==
    [type |-> "LOW_CONFIDENCE", severity |-> "WARNING",
     action |-> "Considerare retraining del modello",
     data |-> [sum |-> Sum(cb), total |-> Len(cb)]]

DriftAlert(sb) ==
    [type |-> "DISTRIBUTION_DRIFT", severity |-> "INFO",
     action |-> "Verificare se i dati in input sono cambiati",
     data |-> CurrentDist(sb)]

\* <= in place of <
LowConfidencePartInclusive(cb) ==
    IF Len(cb) > 0 /\ Sum(cb) <= confidence_threshold * Len(cb)
    THEN <<LowConfidenceAlert(cb)>> ELSE << >>

\* the alert raised only below the retraining policy's critical level less 0.1
LowConfidencePartCritical(cb) ==
    IF MeanBelow(cb, CriticalConfidence - 10)
    THEN <<LowConfidenceAlert(cb)>> ELSE << >>

LowConfidencePart(cb) ==
    IF MeanBelow(cb, confidence_threshold) THEN <<LowConfidenceAlert(cb)>> ELSE << >>

DriftPart(sb) ==
    IF DriftExceeds(sb) THEN <<DriftAlert(sb)>> ELSE << >>

\* the floor of 10 samples applied one entry too early
check_alerts_early(cb, sb) ==
    IF Len(cb) < MinAlertSamples - 1 THEN [exc |-> "none", val |-> << >>]
    ELSE IF Len(sb) = 0 THEN [exc |-> "ZeroDivisionError", val |-> << >>]
    ELSE [exc |-> "none", val |-> LowConfidencePart(cb) \o DriftPart(sb)]

\* the result of check_alerts: exc names the exception it raises (the
\* division count / len of an empty sentiment_buffer), val the list
check_alerts(cb, sb) ==
    IF Len(cb) < MinAlertSamples THEN [exc |-> "none", val |-> << >>]
    ELSE IF Len(sb) = 0 THEN [exc |-> "ZeroDivisionError", val |-> << >>]
    ELSE [exc |-> "none", val |-> LowConfidencePart(cb) \o DriftPart(sb)]

----------------------------------------------------------------------------
(* SentimentMonitor.should_retrain, as a function of confidence_buffer *)

ReasonInsufficient == "Dati insufficienti per la valutazione"

ReasonCritical == "Confidenza critica"

ReasonTrend == "Trend negativo della confidenza rilevato"

ReasonNominal == "Performance nella norma"

\* the alert evaluator's floor of 10 samples in place of the full window
should_retrain_floor(cb, ws) ==
    IF Len(cb) < MinAlertSamples THEN <<FALSE, ReasonInsufficient>>
    ELSE IF MeanBelow(cb, CriticalConfidence) THEN <<TRUE, ReasonCritical>>
    ELSE IF MeanBelowMeanMinus(LastSlice(cb, TrendSlice), FirstSlice(cb, TrendSlice), TrendDrop)
         THEN <<TRUE, ReasonTrend>>
    ELSE <<FALSE, ReasonNominal>>

\* the trend check placed before the critical-confidence check
should_retrain_trend_first(cb, ws) ==
    IF Len(cb) < ws THEN <<FALSE, ReasonInsufficient>>
    ELSE IF MeanBelowMeanMinus(LastSlice(cb, TrendSlice), FirstSlice(cb, TrendSlice), TrendDrop)
         THEN <<TRUE, ReasonTrend>>
    ELSE IF MeanBelow(cb, CriticalConfidence) THEN <<TRUE, ReasonCritical>>
    ELSE <<FALSE, ReasonNominal>>

should_retrain(cb, ws) ==
    IF Len(cb) < ws THEN <<FALSE, ReasonInsufficient>>
    ELSE IF MeanBelow(cb, CriticalConfidence) THEN <<TRUE, ReasonCritical>>
    ELSE IF MeanBelowMeanMinus(LastSlice(cb, TrendSlice), FirstSlice(cb, TrendSlice), TrendDrop)
         THEN <<TRUE, ReasonTrend>>
    ELSE <<FALSE, ReasonNominal>>

----------------------------------------------------------------------------
(* SentimentMonitor.get_current_metrics *)

get_current_metrics(cb, sb, now) ==
    IF Len(cb) = 0 THEN [exc |-> "none", val |-> [status |-> "no_data"]]
    ELSE IF Len(sb) = 0 THEN [exc |-> "ZeroDivisionError", val |-> [status |-> "error"]]
    ELSE [exc |-> "none",
          val |-> [status |-> "ok",
                   total_predictions |-> Len(cb),
                   avg_confidence |-> [sum |-> Sum(cb), total |-> Len(cb)],
                   min_confidence |-> SeqMin(cb),
                   max_confidence |-> SeqMax(cb),
                   sentiment_distribution |-> CurrentDist(sb),
                   timestamp |-> now \div TicksPerSecond]]

----------------------------------------------------------------------------
(* Results handed to log_prediction *)

AllLabels == {labels[i] : i \in DOMAIN labels}

\* the recording of spec section 8's drift case: Positive at 0.9
ResPositive == [sentiment |-> "Positive", confidence |-> 90,
                scores |-> [Negative |-> 4, Neutral |-> 6, Positive |-> 90]]

\* the recording of retrain.py's __main__: Neutral at 0.45
ResNeutral == [sentiment |-> "Neutral", confidence |-> 45,
               scores |-> [Negative |-> 25, Neutral |-> 45, Positive |-> 30]]

\* a recording of confidence 0.1, as in spec section 8's should_retrain case
ResNegative == [sentiment |-> "Negative", confidence |-> 10,
                scores |-> [Negative |-> 10, Neutral |-> 45, Positive |-> 45]]

\* results that carry every key log_prediction reads
Results == {ResPositive, ResNeutral, ResNegative}

\* results that lack a key log_prediction reads
NoConfidence == [sentiment |-> "Neutral",
                 scores |-> [Negative |-> 25, Neutral |-> 45, Positive |-> 30]]
NoSentiment == [confidence |-> 45,
                scores |-> [Negative |-> 25, Neutral |-> 45, Positive |-> 30]]
NoScores == [sentiment |-> "Neutral", confidence |-> 45]
NoPositiveScore == [sentiment |-> "Neutral", confidence |-> 45,
                    scores |-> [Negative |-> 25, Neutral |-> 45]]

\* results that carry every key, with values no three-way softmax puts out:
\* a confidence of 1.5, and scores that sum to 1.35
OutOfRange == [sentiment |-> "Positive", confidence |-> 150,
               scores |-> [Negative |-> 10, Neutral |-> 10, Positive |-> 150]]
BadSum == [sentiment |-> "Neutral", confidence |-> 45,
           scores |-> [Negative |-> 45, Neutral |-> 45, Positive |-> 45]]

MalformedResults ==
    {NoConfidence, NoSentiment, NoScores, NoPositiveScore, OutOfRange, BadSum}

HasScores(r) ==
    /\ "scores" \in DOMAIN r
    /\ \A s \in AllLabels : s \in DOMAIN r.scores

\* the row log_prediction appends to the CSV file
Row(r) == [sentiment |-> r.sentiment, confidence |-> r.confidence,
           neg_score |-> r.scores.Negative, neu_score |-> r.scores.Neutral,
           pos_score |-> r.scores.Positive]

----------------------------------------------------------------------------
(* Initial states *)

InitMonitor(sizes) ==
    /\ window_size \in sizes
    /\ confidence_buffer = << >>
    /\ sentiment_buffer = << >>
    /\ log_file = << >>
    /\ retraining_history = << >>
    /\ clock = 0
    /\ ret = [op |-> "init", exc |-> "none", val |-> << >>]
    /\ inflight = [t \in 1 .. NumThreads |-> << >>]
    /\ overlapped = FALSE

Init == InitMonitor(0 .. MaxWindow)

----------------------------------------------------------------------------
(* SentimentMonitor.log_prediction(text, result) *)

\* a plain list in place of the bounded deque
SentimentAppendUnbounded(sb, r, ws) == Append(sb, r.sentiment)

\* self.confidence_buffer.append(result['confidence'])
ConfidenceAppend(cb, r, ws) == DequeAppend(cb, r.confidence, ws)

\* self.sentiment_buffer.append(result['sentiment'])
SentimentAppend(sb, r, ws) == DequeAppend(sb, r.sentiment, ws)

\* the alerts evaluated before the buffers are updated
LogPredictionAlertsFirst(r) ==
    IF "confidence" \notin DOMAIN r
    THEN /\ ret' = [op |-> "log_prediction", exc |-> "KeyError", val |-> << >>]
         /\ UNCHANGED <<window_size, confidence_buffer, sentiment_buffer,
                        log_file, retraining_history, clock>>
    ELSE IF "sentiment" \notin DOMAIN r
    THEN /\ confidence_buffer' = ConfidenceAppend(confidence_buffer, r, window_size)
         /\ ret' = [op |-> "log_prediction", exc |-> "KeyError", val |-> << >>]
         /\ UNCHANGED <<window_size, sentiment_buffer, log_file,
                        retraining_history, clock>>
    ELSE IF ~HasScores(r)
    THEN /\ confidence_buffer' = ConfidenceAppend(confidence_buffer, r, window_size)
         /\ sentiment_buffer' = SentimentAppend(sentiment_buffer, r, window_size)
         /\ ret' = [op |-> "log_prediction", exc |-> "KeyError", val |-> << >>]
         /\ UNCHANGED <<window_size, log_file, retraining_history, clock>>
    ELSE /\ confidence_buffer' = ConfidenceAppend(confidence_buffer, r, window_size)
         /\ sentiment_buffer' = SentimentAppend(sentiment_buffer, r, window_size)
         /\ log_file' = Append(log_file, Row(r))
         /\ ret' = [op |-> "log_prediction"] @@ check_alerts(confidence_buffer, sentiment_buffer)
         /\ UNCHANGED <<window_size, retraining_history, clock>>

LogPrediction(r) ==
    IF "confidence" \notin DOMAIN r
    THEN /\ ret' = [op |-> "log_prediction", exc |-> "KeyError", val |-> << >>]
         /\ UNCHANGED <<window_size, confidence_buffer, sentiment_buffer,
                        log_file, retraining_history, clock>>
    ELSE IF "sentiment" \notin DOMAIN r
    THEN /\ confidence_buffer' = ConfidenceAppend(confidence_buffer, r, window_size)
         /\ ret' = [op |-> "log_prediction", exc |-> "KeyError", val |-> << >>]
         /\ UNCHANGED <<window_size, sentiment_buffer, log_file,
                        retraining_history, clock>>
    ELSE IF ~HasScores(r)
    THEN /\ confidence_buffer' = ConfidenceAppend(confidence_buffer, r, window_size)
         /\ sentiment_buffer' = SentimentAppend(sentiment_buffer, r, window_size)
         /\ ret' = [op |-> "log_prediction", exc |-> "KeyError", val |-> << >>]
         /\ UNCHANGED <<window_size, log_file, retraining_history, clock>>
    ELSE /\ confidence_buffer' = ConfidenceAppend(confidence_buffer, r, window_size)
         /\ sentiment_buffer' = SentimentAppend(sentiment_buffer, r, window_size)
         /\ log_file' = Append(log_file, Row(r))
         /\ ret' = [op |-> "log_prediction"] @@ check_alerts(confidence_buffer', sentiment_buffer')
         /\ UNCHANGED <<window_size, retraining_history, clock>>

(* SentimentMonitor.check_alerts() *)
CheckAlerts ==
    /\ ret' = [op |-> "check_alerts"] @@ check_alerts(confidence_buffer, sentiment_buffer)
    /\ UNCHANGED <<window_size, confidence_buffer, sentiment_buffer, log_file,
                   retraining_history, clock>>
    /\ UNCHANGED threadVars

(* SentimentMonitor.should_retrain() *)
ShouldRetrain ==
    /\ ret' = [op |-> "should_retrain", exc |-> "none",
               val |-> should_retrain(confidence_buffer, window_size)]
    /\ UNCHANGED <<window_size, confidence_buffer, sentiment_buffer, log_file,
                   retraining_history, clock>>
    /\ UNCHANGED threadVars

(* SentimentMonitor.get_current_metrics() *)
GetCurrentMetrics ==
    /\ ret' = [op |-> "get_current_metrics"]
                 @@ get_current_metrics(confidence_buffer, sentiment_buffer, clock)
    /\ UNCHANGED <<window_size, confidence_buffer, sentiment_buffer, log_file,
                   retraining_history, clock>>
    /\ UNCHANGED threadVars

----------------------------------------------------------------------------
(* RetrainingManager *)

\* f"v{datetime.now().strftime('%Y%m%d_%H%M%S')}": the clock cut to whole
\* seconds
ModelVersion(now) == now \div TicksPerSecond

\* _simulate_retraining reads the clock twice: at t1 for the timestamp
\* (isoformat, full resolution) and at t2 for the version
SimulateRetraining(t1, t2) ==
    [status |-> "completed",
     timestamp |-> t1,
     metrics |-> [accuracy_before |-> 72, accuracy_after |-> 75, improvement |-> "+3%"],
     model_version |-> ModelVersion(t2)]

SkippedRecord(reason, now) ==
    [status |-> "skipped", reason |-> reason, timestamp |-> now]

\* the history after check_and_retrain has produced result
HistoryAfter(history, result) == Append(history, result)

(* check_and_retrain that files the skipped record in the history too *)
CheckAndRetrainFilesSkipped(d) ==
    LET decision == should_retrain(confidence_buffer, window_size)
        result == IF decision[1] THEN SimulateRetraining(clock, clock + d)
                  ELSE SkippedRecord(decision[2], clock)
    IN /\ retraining_history' = HistoryAfter(retraining_history, result)
       /\ ret' = [op |-> "check_and_retrain", exc |-> "none", val |-> result]
       /\ clock' = IF decision[1] THEN clock + d ELSE clock
       /\ UNCHANGED <<window_size, confidence_buffer, sentiment_buffer, log_file>>

(* check_and_retrain that empties the window once it has retrained *)
CheckAndRetrainResetsWindow(d) ==
    LET decision == should_retrain(confidence_buffer, window_size) IN
    IF ~decision[1]
    THEN /\ ret' = [op |-> "check_and_retrain", exc |-> "none",
                    val |-> SkippedRecord(decision[2], clock)]
         /\ UNCHANGED <<window_size, confidence_buffer, sentiment_buffer, log_file,
                        retraining_history, clock>>
    ELSE LET result == SimulateRetraining(clock, clock + d) IN
         /\ retraining_history' = HistoryAfter(retraining_history, result)
         /\ ret' = [op |-> "check_and_retrain", exc |-> "none", val |-> result]
         /\ clock' = clock + d
         /\ confidence_buffer' = << >>
         /\ sentiment_buffer' = << >>
         /\ UNCHANGED <<window_size, log_file>>

(* RetrainingManager.check_and_retrain(); d is the time that passes between
   the two clock reads of _simulate_retraining *)
CheckAndRetrain(d) ==
    LET decision == should_retrain(confidence_buffer, window_size) IN
    IF ~decision[1]
    THEN /\ ret' = [op |-> "check_and_retrain", exc |-> "none",
                    val |-> SkippedRecord(decision[2], clock)]
         /\ UNCHANGED <<window_size, confidence_buffer, sentiment_buffer, log_file,
                        retraining_history, clock>>
    ELSE LET result == SimulateRetraining(clock, clock + d) IN
         /\ retraining_history' = HistoryAfter(retraining_history, result)
         /\ ret' = [op |-> "check_and_retrain", exc |-> "none", val |-> result]
         /\ clock' = clock + d
         /\ UNCHANGED <<window_size, confidence_buffer, sentiment_buffer, log_file>>

(* time passes between two calls *)
Tick ==
    /\ clock < MaxClock
    /\ clock' = clock + 1
    /\ UNCHANGED <<window_size, confidence_buffer, sentiment_buffer, log_file,
                   retraining_history, ret>>
    /\ UNCHANGED threadVars

----------------------------------------------------------------------------
\* get_retraining_history returns self.retraining_history, the list object
\* itself: the caller holds a reference to the manager's list, not a copy
HistoryReference == "self.retraining_history"

GetRetrainingHistory ==
    /\ ret' = [op |-> "get_retraining_history", exc |-> "none",
               val |-> HistoryReference]
    /\ UNCHANGED <<window_size, confidence_buffer, sentiment_buffer, log_file,
                   retraining_history, clock>>
    /\ UNCHANGED threadVars

\* what a caller can do to the list it was handed: being the manager's own
\* list, clear() and pop() on it change retraining_history
CallerMutatesHistory ==
    /\ ret.op = "get_retraining_history"
    /\ ret.val = HistoryReference
    /\ retraining_history # << >>
    /\ \/ retraining_history' = << >>
       \/ retraining_history' =
             SubSeq(retraining_history, 1, Len(retraining_history) - 1)
    /\ UNCHANGED <<window_size, confidence_buffer, sentiment_buffer, log_file,
                   clock, ret>>
    /\ UNCHANGED threadVars

(* Spec: a monitor of small capacity with its retraining manager; every
   call takes any result of Results *)

LogAny ==
    /\ Len(log_file) < MaxLogs
    /\ \E r \in Results : LogPrediction(r)
    /\ UNCHANGED threadVars

Retrain ==
    /\ Len(retraining_history) < MaxHistory
    /\ \E d \in 0 .. 1 : clock + d <= MaxClock /\ CheckAndRetrain(d)
    /\ UNCHANGED threadVars

Next ==
    \/ LogAny
    \/ CheckAlerts
    \/ ShouldRetrain
    \/ GetCurrentMetrics
    \/ Retrain
    \/ GetRetrainingHistory
    \/ Tick

Spec == Init /\ [][Next]_vars

(* SentimentAnalyzer.predict(text). The classification model is outside the
   program: it turns a text into three logits, any three. Logits are
   integers in units of ln 2, so that exp of a logit is a power of two and
   the softmax is an exact fraction <<numerator, denominator>>. *)

RECURSIVE Pow2(_)
Pow2(n) == IF n = 0 THEN 1 ELSE 2 * Pow2(n - 1)

Logits == [DOMAIN labels -> 0 .. MaxLogit]

\* a <= b, for fractions a and b
FracLeq(a, b) == a[1] * b[2] <= b[1] * a[2]

\* exp(x) without the division by the sum
softmax_exp_only(x) == [i \in DOMAIN x |-> <<Pow2(x[i] - SeqMin(x)), 1>>]

\* scipy.special.softmax: exp(x[i]) / sum of exp(x[j])
softmax(x) ==
    LET w == [i \in DOMAIN x |-> Pow2(x[i] - SeqMin(x))]
    IN [i \in DOMAIN x |-> <<w[i], Sum(w)>>]

\* np.argsort(scores): the index orders that sort scores ascending. The
\* default sort kind is not stable, so equal scores come in any order.
ArgSorts(scores) ==
    {p \in [DOMAIN scores -> DOMAIN scores] :
        /\ \A i, j \in DOMAIN p : i # j => p[i] # p[j]
        /\ \A i, j \in DOMAIN p : i < j => FracLeq(scores[p[i]], scores[p[j]])}

\* [::-1]
Reversed(p) == [i \in DOMAIN p |-> p[Len(p) + 1 - i]]

\* the position of label l in labels
LabelIndex(l) == CHOOSE i \in DOMAIN labels : labels[i] = l

\* the dict predict returns for the model output x, when argsort yields p
predict(x, p) ==
    LET scores == softmax(x)
        ranking == Reversed(p)
    IN [sentiment |-> labels[ranking[1]],
        confidence |-> scores[ranking[1]],
        scores |-> [l \in AllLabels |-> scores[LabelIndex(l)]]]

Predict ==
    /\ \E x \in Logits : \E p \in ArgSorts(softmax(x)) :
          ret' = [op |-> "predict", exc |-> "none", val |-> predict(x, p)]
    /\ UNCHANGED <<window_size, confidence_buffer, sentiment_buffer, log_file,
                   retraining_history, clock>>
    /\ UNCHANGED threadVars

(* SpecPredict: predict on every model output of Logits *)

NextPredict == Predict

SpecPredict == Init /\ [][NextPredict]_vars

(* SpecThreads: caller threads that share one monitor and take no lock.
   log_prediction is run line by line, a thread switch being possible
   between any two lines; each single deque append, the write of the CSV row
   and each whole statistics read is one step. *)

Threads == 1 .. NumThreads

InProgress == {t \in Threads : inflight[t] # << >>}

\* the calls that have started and not yet written their row
Unwritten == {t \in InProgress : inflight[t][1] <= 94}

\* thread t enters log_prediction(text, r)
CallLogPrediction(t, r) ==
    /\ inflight[t] = << >>
    /\ Len(log_file) + Cardinality(Unwritten) < MaxThreadLogs
    /\ inflight' = [inflight EXCEPT ![t] = <<78, r>>]
    /\ overlapped' = (overlapped \/ InProgress # {})
    /\ UNCHANGED <<window_size, confidence_buffer, sentiment_buffer, log_file,
                   retraining_history, clock, ret>>

\* self.confidence_buffer.append(result['confidence'])
Line78(t) ==
    /\ inflight[t] # << >>
    /\ inflight[t][1] = 78
    /\ confidence_buffer' =
          ConfidenceAppend(confidence_buffer, inflight[t][2], window_size)
    /\ inflight' = [inflight EXCEPT ![t] = <<79, inflight[t][2]>>]
    /\ UNCHANGED <<window_size, sentiment_buffer, log_file,
                   retraining_history, clock, ret, overlapped>>

\* the thread goes past line 79 without the append
Line79NoAppend(t) ==
    /\ inflight[t] # << >>
    /\ inflight[t][1] = 79
    /\ inflight' = [inflight EXCEPT ![t] = <<94, inflight[t][2]>>]
    /\ UNCHANGED <<window_size, confidence_buffer, sentiment_buffer, log_file,
                   retraining_history, clock, ret, overlapped>>

\* self.sentiment_buffer.append(result['sentiment'])
Line79(t) ==
    /\ inflight[t] # << >>
    /\ inflight[t][1] = 79
    /\ sentiment_buffer' =
          SentimentAppend(sentiment_buffer, inflight[t][2], window_size)
    /\ inflight' = [inflight EXCEPT ![t] = <<94, inflight[t][2]>>]
    /\ UNCHANGED <<window_size, confidence_buffer, log_file,
                   retraining_history, clock, ret, overlapped>>

\* new_data = pd.DataFrame(...); new_data.to_csv(self.log_file, mode='a', ...)
Line94(t) ==
    /\ inflight[t] # << >>
    /\ inflight[t][1] = 94
    /\ log_file' = Append(log_file, Row(inflight[t][2]))
    /\ inflight' = [inflight EXCEPT ![t] = <<97, inflight[t][2]>>]
    /\ UNCHANGED <<window_size, confidence_buffer, sentiment_buffer,
                   retraining_history, clock, ret, overlapped>>

\* alerts = self.check_alerts(); return alerts
Line97(t) ==
    /\ inflight[t] # << >>
    /\ inflight[t][1] = 97
    /\ ret' = [op |-> "log_prediction"]
                 @@ check_alerts(confidence_buffer, sentiment_buffer)
    /\ inflight' = [inflight EXCEPT ![t] = << >>]
    /\ UNCHANGED <<window_size, confidence_buffer, sentiment_buffer, log_file,
                   retraining_history, clock, overlapped>>

ThreadCalls == \E t \in Threads : \E r \in Results : CallLogPrediction(t, r)

ThreadLine78 == \E t \in Threads : Line78(t)

ThreadLine79 == \E t \in Threads : Line79(t)

ThreadLine94 == \E t \in Threads : Line94(t)

ThreadLine97 == \E t \in Threads : Line97(t)

NextThreads ==
    \/ ThreadCalls
    \/ ThreadLine78
    \/ ThreadLine79
    \/ ThreadLine94
    \/ ThreadLine97
    \/ CheckAlerts
    \/ ShouldRetrain
    \/ GetCurrentMetrics

SpecThreads == Init /\ [][NextThreads]_vars

(* SpecMain: the script under __main__ of retrain.py: a monitor of default
   capacity, MainPredictions calls of log_prediction with the Neutral 0.45
   result, then one call of check_and_retrain *)

InitMain == InitMonitor({DefaultWindow})

MainLog ==
    /\ ret.op # "check_and_retrain"
    /\ Len(log_file) < MainPredictions
    /\ LogPrediction(ResNeutral)
    /\ UNCHANGED threadVars

MainRetrain ==
    /\ ret.op # "check_and_retrain"
    /\ Len(log_file) = MainPredictions
    /\ \E d \in 0 .. 1 : clock + d <= MaxClock /\ CheckAndRetrain(d)
    /\ UNCHANGED threadVars

NextMain ==
    \/ MainLog
    \/ MainRetrain
    \/ Tick

SpecMain == InitMain /\ [][NextMain]_vars

(* SpecMalformed: the monitor of Spec with callers that also hand
   log_prediction the results of MalformedResults *)

LogMalformed ==
    /\ Len(log_file) < MaxLogs
    /\ \E r \in MalformedResults : LogPrediction(r)
    /\ UNCHANGED threadVars

NextMalformed ==
    \/ LogAny
    \/ LogMalformed
    \/ CheckAlerts
    \/ GetCurrentMetrics

SpecMalformed == Init /\ [][NextMalformed]_vars

(* SpecCaller: Spec with a caller that uses the list get_retraining_history
   handed it *)

NextCaller ==
    \/ LogAny
    \/ ShouldRetrain
    \/ Retrain
    \/ GetRetrainingHistory
    \/ CallerMutatesHistory
    \/ Tick

SpecCaller == Init /\ [][NextCaller]_vars

----------------------------------------------------------------------------
(* SpecMonitor: one monitor of capacity StreamWindow, fed a stream in which
   each result of Results comes in one uninterrupted run (the runs in any
   order and of any length) *)

InitStream == InitMonitor({StreamWindow})

\* the rows of s, as a set
Rows(s) == {s[i] : i \in DOMAIN s}

\* row continues the last run of the stream s or starts the run of a result
\* not seen before
ContinuesStream(s, row) ==
    IF s = << >> THEN TRUE
    ELSE row = s[Len(s)] \/ row \notin Rows(s)

LogStream ==
    /\ Len(log_file) < MaxStream
    /\ \E r \in Results :
          /\ ContinuesStream(log_file, Row(r))
          /\ LogPrediction(r)
    /\ UNCHANGED threadVars

NextMonitor ==
    \/ LogStream
    \/ CheckAlerts
    \/ ShouldRetrain
    \/ GetCurrentMetrics

SpecMonitor == InitStream /\ [][NextMonitor]_vars

(* SpecCapacities: the stream of SpecMonitor on a monitor of any of these
   capacities: those of Spec, all below the alert evaluator's floor of 10
   samples, the two at the floor (9 and 10), and StreamWindow *)

Capacities ==
    (0 .. MaxWindow) \cup {MinAlertSamples - 1, MinAlertSamples, StreamWindow}

InitCapacities == InitMonitor(Capacities)

SpecCapacities == InitCapacities /\ [][NextMonitor]_vars

----------------------------------------------------------------------------
(* Properties *)

\* the number of rows i of log_file, first < i <= Len(log_file), of sentiment s
RowsWith(first, s) ==
    Cardinality({i \in (first + 1) .. Len(log_file) : log_file[i].sentiment = s})

\* C1: after N recordings on a monitor of capacity C the window holds
\* min(N, C) entries, they are the last min(N, C) recordings in arrival
\* order, and the sentiment distribution counts exactly those recordings
\* (the N - C oldest no longer contribute).
C1_WindowHoldsLastRecordings ==
    LET N == Len(log_file)
        k == MinOf(N, window_size)
    IN /\ Len(confidence_buffer) = k
       /\ Len(sentiment_buffer) = k
       /\ \A i \in 1 .. k :
             /\ confidence_buffer[i] = log_file[N - k + i].confidence
             /\ sentiment_buffer[i] = log_file[N - k + i].sentiment
       /\ CurrentDist(sentiment_buffer).total = k
       /\ \A s \in AllLabels :
             CurrentDist(sentiment_buffer).counts[s] = RowsWith(N - k, s)
       /\ (ret.op = "get_current_metrics" /\ k > 0) =>
             ret.val.sentiment_distribution = CurrentDist(sentiment_buffer)

\* C1 witness: more recordings than the capacity, and the sentiment of the
\* oldest recording is gone from the distribution get_current_metrics returned
C1_Witness ==
    /\ window_size >= 1
    /\ Len(log_file) > window_size
    /\ ret.op = "get_current_metrics"
    /\ ret.val.status = "ok"
    /\ ret.val.sentiment_distribution.counts[log_file[1].sentiment] = 0

\* C2: the two buffers have the same length, at most the capacity, and
\* index i of both holds the confidence and the sentiment of one and the
\* same recording, in arrival order.
C2_BuffersParallel ==
    /\ Len(confidence_buffer) = Len(sentiment_buffer)
    /\ Len(confidence_buffer) <= window_size
    /\ Len(confidence_buffer) <= Len(log_file)
    /\ \A i \in 1 .. Len(confidence_buffer) :
          LET row == log_file[Len(log_file) - Len(confidence_buffer) + i]
          IN /\ confidence_buffer[i] = row.confidence
             /\ i \in DOMAIN sentiment_buffer
             /\ sentiment_buffer[i] = row.sentiment

\* C2 witness: a full window after an eviction, holding two different
\* predictions, with history records and every kind of call made before
C2_Witness ==
    /\ window_size = 2
    /\ Len(log_file) > window_size
    /\ Len(confidence_buffer) = 2
    /\ confidence_buffer[1] # confidence_buffer[2]
    /\ Len(retraining_history) >= 1
    /\ ret.op = "check_and_retrain"

\* the alerts of a given type in a list of alerts
AlertsOf(alerts, t) == {i \in DOMAIN alerts : alerts[i].type = t}

\* the confidence of the i-th entry the window holds, read from the log
WindowConfidence(i) ==
    log_file[Len(log_file) - Len(confidence_buffer) + i].confidence

RECURSIVE WindowSum(_, _)
\* the sum of the confidences of the entries lo .. hi of the window
WindowSum(lo, hi) ==
    IF lo > hi THEN 0 ELSE WindowConfidence(lo) + WindowSum(lo + 1, hi)

\* the distribution of the window's labels departs from the baseline
\* {0.33, 0.34, 0.33} by more than 0.2 for some label
WindowDrifts ==
    LET n == Len(sentiment_buffer)
        base == [Negative |-> 33, Neutral |-> 34, Positive |-> 33]
    IN \E s \in {"Negative", "Neutral", "Positive"} :
          \/ 100 * RowsWith(Len(log_file) - n, s) > (base[s] + 20) * n
          \/ 100 * RowsWith(Len(log_file) - n, s) < (base[s] - 20) * n

\* the mean of the 20 newest entries of the window is below the mean of
\* its 20 oldest entries minus 0.1
WindowTrendsDown ==
    LET n == Len(confidence_buffer)
        m == MinOf(n, 20)
    IN WindowSum(n - m + 1, n) < WindowSum(1, m) - 10 * m

\* C3: check_alerts returns the empty list whenever the window holds fewer
\* than 10 entries, whatever they are; with 10 entries it does return alerts
\* (ten entries of confidence 0.45 give a non-empty list).
C3_NoAlertsBelowTen ==
    ret.op = "check_alerts" =>
        /\ Len(confidence_buffer) < 10 => (ret.exc = "none" /\ ret.val = << >>)
        /\ (Len(confidence_buffer) = 10 /\ WindowSum(1, 10) = 450) => ret.val # << >>

\* C3 witness: check_alerts called on 9 entries whose mean confidence is
\* below the threshold and whose labels drift from the baseline
C3_Witness ==
    /\ ret.op = "check_alerts"
    /\ Len(confidence_buffer) = 9
    /\ WindowSum(1, 9) < 60 * 9
    /\ WindowDrifts
    /\ ret.val = << >>

\* C4: with at least 10 entries, check_alerts returns a LOW_CONFIDENCE alert
\* of severity WARNING if and only if the mean confidence is strictly below
\* 0.6 (a mean equal to 0.6 gives none).
C4_LowConfidenceIff ==
    (ret.op = "check_alerts" /\ Len(confidence_buffer) >= 10) =>
        LET n == Len(confidence_buffer)
            low == AlertsOf(ret.val, "LOW_CONFIDENCE")
        IN /\ ret.exc = "none"
           /\ (low # {}) <=> (WindowSum(1, n) < 60 * n)
           /\ Cardinality(low) <= 1
           /\ \A i \in low : ret.val[i].severity = "WARNING"

\* C4 witness: ten recordings of one confidence below the threshold, and
\* check_alerts has returned the LOW_CONFIDENCE warning
C4_Witness ==
    /\ ret.op = "check_alerts"
    /\ Len(confidence_buffer) = 10
    /\ \A i \in 1 .. 10 : confidence_buffer[i] = 45
    /\ \E i \in DOMAIN ret.val :
          ret.val[i].type = "LOW_CONFIDENCE" /\ ret.val[i].severity = "WARNING"

\* C5: with at least 10 entries, check_alerts returns a DISTRIBUTION_DRIFT
\* alert of severity INFO carrying the current distribution if and only if
\* some label's proportion departs from its baseline by more than 0.2,
\* whatever the LOW_CONFIDENCE check says; 20 recordings, all Positive at
\* confidence 0.9, give exactly one alert, of type DISTRIBUTION_DRIFT.
C5_DriftIff ==
    (ret.op = "check_alerts" /\ Len(confidence_buffer) >= 10) =>
        LET n == Len(sentiment_buffer)
            drift == AlertsOf(ret.val, "DISTRIBUTION_DRIFT")
        IN /\ ret.exc = "none"
           /\ (drift # {}) <=> WindowDrifts
           /\ Cardinality(drift) <= 1
           /\ \A i \in drift :
                 /\ ret.val[i].severity = "INFO"
                 /\ ret.val[i].data.total = n
                 /\ \A s \in {"Negative", "Neutral", "Positive"} :
                       ret.val[i].data.counts[s] = RowsWith(Len(log_file) - n, s)
           /\ (n = 20 /\ RowsWith(Len(log_file) - n, "Positive") = 20
                      /\ WindowSum(1, 20) = 20 * 90)
                 => (Len(ret.val) = 1 /\ ret.val[1].type = "DISTRIBUTION_DRIFT")

\* C5 witness: the 20 Positive recordings at 0.9, answered by exactly one
\* alert, the drift one
C5_Witness ==
    /\ ret.op = "check_alerts"
    /\ Len(sentiment_buffer) = 20
    /\ \A i \in 1 .. 20 : sentiment_buffer[i] = "Positive" /\ confidence_buffer[i] = 90
    /\ Len(ret.val) = 1
    /\ ret.val[1].type = "DISTRIBUTION_DRIFT"

\* C6: should_retrain returns (False, insufficient data) whenever the window
\* holds fewer entries than its capacity, whatever the confidences; it never
\* returns True unless the window is full.
C6_NoRetrainUntilFull ==
    ret.op = "should_retrain" =>
        /\ Len(confidence_buffer) < window_size =>
              ret.val = <<FALSE, "Dati insufficienti per la valutazione">>
        /\ ret.val[1] => Len(confidence_buffer) = window_size

\* C6 witness: capacity - 1 entries, all of confidence 0.1, and should_retrain
\* has answered
C6_Witness ==
    /\ ret.op = "should_retrain"
    /\ window_size >= 11
    /\ Len(confidence_buffer) = window_size - 1
    /\ \A i \in DOMAIN confidence_buffer : confidence_buffer[i] = 10
    /\ ret.val[1] = FALSE

\* C7: on a full window whose mean confidence is strictly below 0.5,
\* should_retrain returns (True, critical confidence), also when the
\* negative-trend condition holds as well.
C7_CriticalFirst ==
    (/\ ret.op = "should_retrain"
     /\ Len(confidence_buffer) = window_size
     /\ WindowSum(1, Len(confidence_buffer)) < 50 * Len(confidence_buffer))
        => ret.val = <<TRUE, "Confidenza critica">>

\* C7 witness: a full window on which the critical condition and the
\* negative-trend condition both hold, answered with the critical reason
C7_Witness ==
    /\ ret.op = "should_retrain"
    /\ Len(confidence_buffer) = window_size
    /\ WindowSum(1, Len(confidence_buffer)) < 50 * Len(confidence_buffer)
    /\ WindowTrendsDown
    /\ ret.val = <<TRUE, "Confidenza critica">>

\* C8: on a full window whose mean confidence is at least 0.5, should_retrain
\* returns (True, negative trend) exactly when the mean of the 20 newest
\* entries is below the mean of the 20 oldest entries still held minus 0.1,
\* and (False, performance nominal) otherwise; the entries are those of the
\* current window, so the older slice moves on with every eviction.
C8_TrendIff ==
    (/\ ret.op = "should_retrain"
     /\ Len(confidence_buffer) = window_size
     /\ window_size > 0
     /\ WindowSum(1, Len(confidence_buffer)) >= 50 * Len(confidence_buffer))
        => ret.val = IF WindowTrendsDown
                     THEN <<TRUE, "Trend negativo della confidenza rilevato">>
                     ELSE <<FALSE, "Performance nella norma">>

\* C8 witness: the trend reason returned on a window that has already
\* evicted a recording, which the oldest 20 recordings of the log would not
\* have given
C8_Witness ==
    /\ ret.op = "should_retrain"
    /\ ret.val = <<TRUE, "Trend negativo della confidenza rilevato">>
    /\ Len(log_file) > window_size
    /\ WindowSum(1, Len(confidence_buffer)) >= 50 * Len(confidence_buffer)

\* a step that is a call of check_and_retrain (a call that changes nothing,
\* a second 'skipped' at the same instant, is a stuttering step)
RetrainCallStep ==
    /\ ret'.op = "check_and_retrain"
    /\ \/ ret.op # "check_and_retrain"
       \/ ret'.val # ret.val
       \/ retraining_history' # retraining_history

\* C9: when check_and_retrain is called twice in sequence and retraining is
\* warranted both times, each call appends one record and the two records
\* have distinct model_version values, whatever the time between the calls.
C9_TwoRetrainsDistinctVersions ==
    [][(/\ ret.op = "check_and_retrain"
        /\ ret.val.status = "completed"
        /\ ret'.op = "check_and_retrain"
        /\ retraining_history' # retraining_history)
          => /\ Len(retraining_history) >= 1
             /\ retraining_history[Len(retraining_history)] = ret.val
             /\ retraining_history' = Append(retraining_history, ret'.val)
             /\ ret'.val.model_version # ret.val.model_version]_vars

\* C10: a check_and_retrain call made when should_retrain is False returns
\* a 'skipped' record with the policy's reason and leaves the history as it
\* was; the history changes only by a call that returns 'completed', which
\* appends the returned record.
C10_SkippedLeavesHistory ==
    [][/\ RetrainCallStep =>
             LET decision == should_retrain(confidence_buffer, window_size)
             IN /\ ~decision[1] =>
                      /\ ret'.val.status = "skipped"
                      /\ ret'.val.reason = decision[2]
                      /\ retraining_history' = retraining_history
                /\ (retraining_history' # retraining_history)
                      <=> (ret'.val.status = "completed")
                /\ ret'.val.status = "completed" =>
                      retraining_history' = Append(retraining_history, ret'.val)
       /\ (retraining_history' # retraining_history) => RetrainCallStep]_vars

\* C10 witness: a 'skipped' record returned on a full window while the
\* history already holds a record
C10_Witness ==
    /\ ret.op = "check_and_retrain"
    /\ ret.val.status = "skipped"
    /\ ret.val.reason = "Performance nella norma"
    /\ Len(confidence_buffer) = window_size
    /\ Len(retraining_history) >= 1

\* s is an initial part of t
IsPrefix(s, t) == Len(s) <= Len(t) /\ SubSeq(t, 1, Len(s)) = s

\* C11: the retraining history is append-only and get_retraining_history
\* hands out a read-only view: in every step, whoever takes it, the history
\* keeps its length or grows, the records it held stay at their index with
\* their content, and new records come at the end only.
C11_HistoryAppendOnly ==
    [][IsPrefix(retraining_history, retraining_history')]_vars

\* C12: a log_prediction call whose result lacks 'confidence', 'sentiment',
\* 'scores' or a label of 'scores' fails with an error and leaves the two
\* buffers and the persisted log exactly as they were before the call.
C12_FailedCallChangesNothing ==
    [][(ret'.op = "log_prediction" /\ ret'.exc = "KeyError")
         => UNCHANGED <<confidence_buffer, sentiment_buffer, log_file>>]_vars

\* a row of the log whose values a well-formed result can have: confidence
\* and every score within [0, 1], the scores summing to 1
WellFormedRow(row) ==
    /\ row.confidence \in 0 .. 100
    /\ \A x \in {row.neg_score, row.neu_score, row.pos_score} : x \in 0 .. 100
    /\ row.neg_score + row.neu_score + row.pos_score = 100

\* C13: the monitor never records malformed scores as valid: a result whose
\* scores do not sum to 1, or whose confidence or scores lie outside [0, 1],
\* is refused, so every recorded row is well formed and every confidence
\* that enters the rolling statistics lies within [0, 1].
C13_OnlyWellFormedRecorded ==
    /\ \A i \in DOMAIN log_file : WellFormedRow(log_file[i])
    /\ \A i \in DOMAIN confidence_buffer : confidence_buffer[i] \in 0 .. 100

\* the labels whose score in the result res is the largest
TopLabels(res) ==
    {l \in DOMAIN res.scores :
        \A k \in DOMAIN res.scores : FracLeq(res.scores[k], res.scores[l])}

\* C14: predict returns as sentiment the label of the maximum score and,
\* when two or three labels tie for the maximum, the tied label of lowest
\* index in the order Negative, Neutral, Positive.
C14_TiesToLowestIndex ==
    ret.op = "predict" =>
        /\ ret.val.sentiment \in TopLabels(ret.val)
        /\ \A l \in TopLabels(ret.val) :
              LabelIndex(ret.val.sentiment) <= LabelIndex(l)

\* C15: every result of predict has a score for exactly the three labels,
\* the scores sum to 1, confidence is scores[sentiment], no score is larger
\* than confidence, and confidence lies in [0, 1].
C15_ResultWellFormed ==
    ret.op = "predict" =>
        LET res == ret.val
            neg == res.scores["Negative"]
            neu == res.scores["Neutral"]
            pos == res.scores["Positive"]
        IN /\ DOMAIN res.scores = {"Negative", "Neutral", "Positive"}
           /\ neg[1] * neu[2] * pos[2] + neu[1] * neg[2] * pos[2]
                 + pos[1] * neg[2] * neu[2] = neg[2] * neu[2] * pos[2]
           /\ res.confidence = res.scores[res.sentiment]
           /\ \A l \in DOMAIN res.scores : FracLeq(res.scores[l], res.confidence)
           /\ FracLeq(<<0, 1>>, res.confidence)
           /\ FracLeq(res.confidence, <<1, 1>>)

\* predict has returned a result in which Negative and Neutral tie for the
\* maximum, 2/5 each
C15_Witness ==
    /\ ret.op = "predict"
    /\ ret.val.scores["Negative"] = <<2, 5>>
    /\ ret.val.scores["Neutral"] = <<2, 5>>
    /\ ret.val.confidence = <<2, 5>>

\* C16: on an empty window, whatever the capacity (0 included), no
\* statistics or decision operation fails or takes a mean of zero entries:
\* get_current_metrics returns the 'no_data' status, check_alerts the empty
\* list, should_retrain the insufficient-data decision.
C16_EmptyWindowNoData ==
    (confidence_buffer = << >> /\ sentiment_buffer = << >>) =>
        /\ ret.op = "get_current_metrics" =>
              ret.exc = "none" /\ ret.val.status = "no_data"
        /\ ret.op = "check_alerts" => ret.exc = "none" /\ ret.val = << >>
        /\ ret.op = "should_retrain" => ret.val = <<FALSE, ReasonInsufficient>>

\* C17: log_prediction appends first and evaluates the alerts after: what a
\* call returns is what check_alerts gives on the window that already holds
\* the prediction just recorded. On a fresh monitor the 9th call returns no
\* alert, and the 10th returns one when the ten confidences have a mean
\* below 0.6.
C17_AlertsAfterAppend ==
    ret.op = "log_prediction" =>
        LET N == Len(log_file)
            n == Len(confidence_buffer)
            low == AlertsOf(ret.val, "LOW_CONFIDENCE")
            drift == AlertsOf(ret.val, "DISTRIBUTION_DRIFT")
        IN /\ N >= 1 /\ n >= 1
           /\ confidence_buffer[n] = log_file[N].confidence
           /\ sentiment_buffer[n] = log_file[N].sentiment
           /\ ret.exc = check_alerts(confidence_buffer, sentiment_buffer).exc
           /\ ret.val = check_alerts(confidence_buffer, sentiment_buffer).val
           /\ (low # {}) <=> (n >= 10 /\ WindowSum(1, n) < 60 * n)
           /\ (drift # {}) <=> (n >= 10 /\ WindowDrifts)
           /\ N <= 9 => ret.val = << >>
           /\ (N = 10 /\ WindowSum(1, 10) < 600) => ret.val # << >>

\* C17 witness: the 10th call on a fresh monitor, the ten recordings at
\* confidence 0.45, has returned the LOW_CONFIDENCE alert
C17_Witness ==
    /\ ret.op = "log_prediction"
    /\ Len(log_file) = 10
    /\ \A i \in 1 .. 10 : log_file[i].confidence = 45
    /\ AlertsOf(ret.val, "LOW_CONFIDENCE") # {}

\* the two buffers have one length and every index holds the confidence and
\* the label of one prediction (the results of Results differ in both)
BuffersWhole ==
    /\ Len(confidence_buffer) = Len(sentiment_buffer)
    /\ \A i \in DOMAIN confidence_buffer :
          \E r \in Results : /\ confidence_buffer[i] = r.confidence
                             /\ sentiment_buffer[i] = r.sentiment

\* a step that is a statistics read by a caller outside log_prediction:
\* check_alerts, should_retrain or get_current_metrics returns
OutsideRead ==
    /\ inflight' = inflight
    /\ ret'.op \in {"check_alerts", "should_retrain", "get_current_metrics"}

\* a step in which a log_prediction call reads the window for its alerts
\* and returns
OwnRead ==
    \E t \in Threads : /\ inflight[t] # << >>
                       /\ inflight[t][1] = 97
                       /\ inflight'[t] = << >>

\* C18: with several callers interleaving log_prediction on one shared
\* monitor, without a lock, each call's two appends and its statistics read
\* behave as one atomic unit: no read (check_alerts, should_retrain,
\* get_current_metrics, or the check of a log_prediction call) observes
\* buffers of different lengths or an index that holds the values of two
\* different predictions.
C18_ReadsSeeWholeCalls ==
    [][(OutsideRead \/ OwnRead) => BuffersWhole]_vars

\* C18, amended: the same, for callers that serialise their calls: as long
\* as no log_prediction call has started while another was in progress, the
\* read of a call, and every read made while no call is in progress,
\* observes whole buffers.
C18_SerialisedReadsSeeWholeCalls ==
    [][(~overlapped /\ (OwnRead \/ (InProgress = {} /\ OutsideRead)))
         => BuffersWhole]_vars

\* C18 witness: two calls that did not overlap have recorded two different
\* predictions, no call is in progress, and check_alerts has read the window
C18_Witness ==
    /\ ~overlapped
    /\ InProgress = {}
    /\ Len(confidence_buffer) = 2
    /\ confidence_buffer[1] # confidence_buffer[2]
    /\ ret.op = "check_alerts"

\* C19: on a monitor of default capacity, after 50 log_prediction calls of
\* confidence 0.45 each, check_and_retrain triggers the retraining: it
\* returns a 'completed' record and appends it to the history.
C19_FiftyLowRecordingsRetrain ==
    (ret.op = "check_and_retrain" /\ Len(log_file) = 50) =>
        /\ ret.val.status = "completed"
        /\ retraining_history = <<ret.val>>

\* the window is full and its entries, read from the log, have a mean
\* confidence below 0.5 or a falling trend
RetrainWarranted ==
    LET n == Len(confidence_buffer)
    IN /\ n = window_size
       /\ (WindowSum(1, n) < 50 * n \/ WindowTrendsDown)

\* C20: check_and_retrain, should_retrain, check_alerts and
\* get_current_metrics never modify the monitor's buffers, so a completed
\* retraining neither resets the window nor starts a cooldown: once a
\* check_and_retrain call has returned 'completed', every further call made
\* before the next log_prediction returns 'completed' too and appends one
\* more record. Step by step: the window changes in log_prediction steps
\* only; a call that returns 'completed' leaves a window that warrants
\* retraining; and every call made on such a window returns 'completed' and
\* appends exactly the returned record.
C20_CompletedUntilNextLog ==
    [][/\ (<<window_size, confidence_buffer, sentiment_buffer, log_file>>'
              # <<window_size, confidence_buffer, sentiment_buffer, log_file>>)
             => ret'.op = "log_prediction"
       /\ (ret.op = "check_and_retrain" /\ RetrainCallStep)
             => (ret.val.status = "completed" => ret'.val.status = "completed")
       /\ RetrainCallStep =>
             /\ ret'.val.status = "completed" => RetrainWarranted'
             /\ RetrainWarranted =>
                   /\ ret'.val.status = "completed"
                   /\ retraining_history' =
                         Append(retraining_history, ret'.val)]_vars

\* C20 witness: after the only log_prediction call of the behaviour,
\* check_and_retrain has returned 'completed' twice
C20_Witness ==
    /\ Len(log_file) = 1
    /\ Len(retraining_history) = 2
    /\ ret.op = "check_and_retrain"
    /\ ret.val.status = "completed"
    /\ retraining_history[2] = ret.val
    /\ Len(confidence_buffer) = 1

\* C21: on a monitor of capacity 10 or more, in every state where
\* should_retrain returns True for the critical-confidence reason,
\* check_alerts on the same state contains a LOW_CONFIDENCE alert; on a
\* monitor of capacity below 10, check_alerts is empty in every reachable
\* state, and so is every list of alerts a call has returned, whether or
\* not retraining is triggered.
C21_CriticalImpliesAlert ==
    LET decision == should_retrain(confidence_buffer, window_size)
        alerts == check_alerts(confidence_buffer, sentiment_buffer)
        n == Len(confidence_buffer)
    IN /\ window_size >= 10 =>
             /\ decision = <<TRUE, ReasonCritical>> =>
                   /\ alerts.exc = "none"
                   /\ AlertsOf(alerts.val, "LOW_CONFIDENCE") # {}
             /\ (ret.op = "should_retrain" /\ ret.val = <<TRUE, ReasonCritical>>) =>
                   /\ n >= 10
                   /\ WindowSum(1, n) < 60 * n
                   /\ AlertsOf(alerts.val, "LOW_CONFIDENCE") # {}
       /\ window_size < 10 =>
             /\ alerts.exc = "none"
             /\ alerts.val = << >>
             /\ ret.op \in {"check_alerts", "log_prediction"} => ret.val = << >>

\* C21 witness: on a monitor of capacity 10, should_retrain has returned
\* True for the critical-confidence reason
C21_Witness ==
    /\ window_size = 10
    /\ ret.op = "should_retrain"
    /\ ret.val = <<TRUE, ReasonCritical>>

====
